---- MODULE Spec2Model ----
(***************************************************************************)
(* Model of mindaffectBCI/decoder/analyse_datasets.py :: analyse_dataset.  *)
(*                                                                         *)
(* One call of analyse_dataset is followed statement block by statement    *)
(* block (pc).  Tensors are modelled along their trial axis (axis -3): a   *)
(* tensor is a sequence with one entry per trial, the entry naming which   *)
(* trial's data (or which trial's score) sits at that position.  The       *)
(* output axis of Y is a sequence of column identities.  The collaborators *)
(* (the adapters of model_fitting.py, sklearn's GridSearchCV, utils'       *)
(* block_permute) are not part of the sources; they are modelled by their  *)
(* interface and every call made to them is appended to `calls`.           *)
(***************************************************************************)
EXTENDS Integers, Sequences, FiniteSets, TLC

\* ---------------------------------------------------------------- bounds
MaxTrials == 3      \* X.shape[0] ranges over 1..MaxTrials
MaxTest == 2        \* len(test_idx) ranges over 1..MaxTest
MaxY == 2           \* Y.shape[-1] ranges over 1..MaxY
MaxVirt == 2        \* n_virt_out ranges over 1..MaxVirt
GridSize == 3       \* number of grid points in tuned_parameters
MaxScore == 1       \* mean_test_score of a grid point ranges over 0..MaxScore
MaxSplits == 2      \* an explicit `splits` list has 0..MaxSplits folds
MaxFiles == 2       \* a dataset has 1..MaxFiles files
MaxCfg == 2         \* the parameter grid has 1..MaxCfg configurations
MaxLoop == 2        \* a LoopedScreenGraph has n_loop in 0..MaxLoop
MaxSteps == 10      \* a screen graph makes at most MaxSteps transitions per run
MaxList == 5        \* a ScreenList has 1..MaxList sub-screens
ClockWrap == 4      \* getTimeStamp() counts modulo ClockWrap (1<<31 in the source)
MaxDuration == 2    \* a WaitScreen has duration None or 0..MaxDuration

\* optional values: None is the empty tuple, Some(v) the one-element tuple
None == <<>>
Some(v) == <<v>>
Val(o) == o[1]

tau_ms == 300       \* default of the tau_ms argument
offset_ms == 0      \* default of the offset_ms argument

\* the model-selection tokens the dispatch compares against (lines 85-101)
Tokens == {"cca", "bwd", "fwd", "ridge", "lr", "svr", "svc", "linearsklearn"}

\* values of the `model` argument: None, a token, a string that is no token,
\* or a pre-built BaseSequence2Sequence instance (a MultiCCA or another one)
Instances == {"inst:MultiCCA", "inst:BwdLinearRegression"}
ModelArgs == Tokens \cup Instances \cup {"None", "nosuchmodel"}

VARIABLES
    pc,             \* position in analyse_dataset
    err,            \* None, or Some(exception that left analyse_dataset)
    X,              \* trial axis of X: <<0, 1, .., nTrials-1>>
    Y,              \* output axis of Y: sequence of column identities
    oY,             \* local oY (copy of Y taken at line 108)
    coords,         \* None, or the sample rate held in coords[1]['fs']
    fs,             \* the fs argument / local
    model,          \* the model argument
    test_idx,       \* None, or a list of trial indices
    cv,             \* the cv argument
    n_virt_out,     \* None or a number of virtual outputs
    tuned_parameters, \* None, or the list of values of the tuned parameter
    ranks,          \* None, or the list of rank candidates
    tau,            \* local tau (None before it is computed)
    clsfr,          \* the adapter: None or Some([cls, origin, param, seen])
    train_ind,      \* boolean mask over trials (<<>> when not built)
    test_ind,       \* boolean mask over trials (<<>> when not built)
    X_train,        \* trial axis of X_train / Y_train
    cv_clsfr,       \* None, or Some([means, best]) of the fitted GridSearchCV
    res,            \* None, or Some(dict returned by cv_fit / built at line 153)
    Fy,             \* local Fy
    rawFy,          \* local rawFy
    calls,          \* log of the calls made to the collaborators
    ret             \* the returned tuple (<<>> before the return)

adVars == <<pc, err, X, Y, oY, coords, fs, model, test_idx, cv, n_virt_out,
            tuned_parameters, ranks, tau, clsfr, train_ind, test_ind, X_train,
            cv_clsfr, res, Fy, rawFy, calls, ret>>

\* a caller that calls analyse_dataset a second time with the same arguments
VARIABLES
    run,            \* 1 during the first call, 2 during the second
    argY,           \* the caller's Y array
    prev            \* None, or Some([calls, clsfr, err]) of the first call

twVars == <<run, argY, prev>>

\* analyse_train_test
VARIABLES
    tt_pc,          \* position in analyse_train_test ("idle": not called)
    tt_err,         \* None, or Some(exception that left analyse_train_test)
    tt_X,           \* trial axis of its X
    tt_coords,      \* its coords: None, or the sample rate in coords[1]['fs']
    tt_model,       \* its model argument
    splits,         \* [isint, step, folds]: the int or the list `splits` names
    splitsize,      \* local splitsize (None when splits was no int)
    tt_i,           \* number of loop iterations begun (the loop's i, plus 1)
    labels,         \* local labels
    scores,         \* local scores
    decoding_curves, \* local decoding_curves
    Ws,             \* local Ws
    Rs,             \* local Rs
    tt_calls        \* fitting calls made by the analyse_dataset calls: [fold, call]

ttVars == <<tt_pc, tt_err, tt_X, tt_coords, tt_model, splits, splitsize, tt_i,
            labels, scores, decoding_curves, Ws, Rs, tt_calls>>

\* analyse_train_test is not called
TTIdle ==
    /\ tt_pc = "idle" /\ tt_err = <<>> /\ tt_X = <<>> /\ tt_coords = <<>>
    /\ tt_model = "None"
    /\ splits = [isint |-> FALSE, step |-> 0, folds |-> <<>>]
    /\ splitsize = <<>> /\ tt_i = 0
    /\ labels = <<>> /\ scores = <<>> /\ decoding_curves = <<>>
    /\ Ws = <<>> /\ Rs = <<>> /\ tt_calls = <<>>

\* analyse_dataset is not called on its own
ADIdle ==
    /\ pc = "idle" /\ err = <<>> /\ X = <<>> /\ Y = <<>> /\ oY = <<>>
    /\ coords = <<>> /\ fs = <<>> /\ model = "None" /\ test_idx = <<>>
    /\ cv = FALSE /\ n_virt_out = <<>> /\ tuned_parameters = <<>>
    /\ ranks = <<>> /\ tau = <<>> /\ clsfr = <<>> /\ train_ind = <<>>
    /\ test_ind = <<>> /\ X_train = <<>> /\ cv_clsfr = <<>> /\ res = <<>>
    /\ Fy = <<>> /\ rawFy = <<>> /\ calls = <<>> /\ ret = <<>>
    /\ run = 1 /\ argY = <<>> /\ prev = <<>>

\* dataset_GridSearchCV and its two drivers, datasets_GridSearchCV (one file
\* after the other) and concurrent_datasets_GridSearchCV (one job per file)
VARIABLES
    gs_mode,        \* "sequential" or "concurrent": which driver runs
    gs_pc,          \* position of the driver ("idle": not called)
    gs_err,         \* None, or Some(exception that left the driver)
    gs_res,         \* the driver's res list: entries None or Some(record)
    gs_file,        \* sequential driver: number of files begun
    wk,             \* per file: the dataset_GridSearchCV call / job for it
    completed,      \* the files' calls in the order in which they ended
    early,          \* None, or Some(jobs already ended when as_completed began)
    collected,      \* the jobs in the order the driver took their results
    written,        \* number of times the results file was written
    gs_loadFails,   \* the files for which the loader raises
    gs_configs      \* ParameterGrid(tuned_parameters): one record per config

gsVars == <<gs_mode, gs_pc, gs_err, gs_res, gs_file, wk, completed, early,
            collected, written, gs_loadFails, gs_configs>>

\* the grid search is not called
GSIdle ==
    /\ gs_mode = "sequential" /\ gs_pc = "idle" /\ gs_err = <<>>
    /\ gs_res = <<>> /\ gs_file = 0 /\ wk = <<>> /\ completed = <<>>
    /\ early = <<>> /\ collected = <<>> /\ written = 0
    /\ gs_loadFails = {} /\ gs_configs = <<>>

\* a ScreenGraph or LoopedScreenGraph (basic_screens.py) and its sub-screens
VARIABLES
    sg_kind,                \* "idle", "graph" or "looped": the class constructed
    subscreens,             \* the keys of self.subscreens, in dict order
    subscreen_transitions,  \* self.subscreen_transitions: name -> target
    start_screen,           \* self.start_screen
    default_screen,         \* self.default_screen (None or Some(name))
    exit_screen,            \* self.exit_screen (None or Some(name))
    inner_exit_screen,      \* LoopedScreenGraph.inner_exit_screen
    n_loop,                 \* LoopedScreenGraph.n_loop
    loop_i,                 \* LoopedScreenGraph.loop_i
    current_screen,         \* self.current_screen (None or Some(name))
    screen,                 \* self.screen: None or Some(key of the sub-screen)
    sub,                    \* per sub-screen: its isRunning and isDone flags
    trail                   \* the values current_screen took since reset()

sgVars == <<sg_kind, subscreens, subscreen_transitions, start_screen,
            default_screen, exit_screen, inner_exit_screen, n_loop, loop_i,
            current_screen, screen, sub, trail>>

\* no screen graph is constructed
SGIdle ==
    /\ sg_kind = "idle" /\ subscreens = <<>> /\ subscreen_transitions = <<>>
    /\ start_screen = "" /\ default_screen = <<>> /\ exit_screen = <<>>
    /\ inner_exit_screen = <<>> /\ n_loop = 0 /\ loop_i = 0
    /\ current_screen = <<>> /\ screen = <<>> /\ sub = <<>> /\ trail = <<>>

\* a ScreenList (basic_screens.py, lines 220-266) and its sub-screens
VARIABLES
    sl_subscreens,      \* self.subscreens: per sub-screen its isRunning, isDone
    current_screen_idx, \* self.current_screen_idx (None or Some(index))
    sl_screen,          \* self.screen: None or Some(index of the sub-screen)
    sl_reset,           \* whether reset() was called since construction
    sl_shown,           \* the indices that became current since reset()
    sl_finished         \* the indices that reported done since reset()

slVars == <<sl_subscreens, current_screen_idx, sl_screen, sl_reset, sl_shown,
            sl_finished>>

\* no ScreenList is constructed
SLIdle ==
    /\ sl_subscreens = <<>> /\ current_screen_idx = <<>> /\ sl_screen = <<>>
    /\ sl_reset = FALSE /\ sl_shown = <<>> /\ sl_finished = <<>>

\* a WaitScreen (basic_screens.py, lines 59-153) and the window it reads
VARIABLES
    isRunning,          \* self.isRunning
    isDone,             \* self.isDone
    t0,                 \* self.t0 (None or Some(time stamp))
    duration,           \* self.duration (None or Some(ms))
    waitKey,            \* self.waitKey
    waitMouse,          \* self.waitMouse
    last_key_press,     \* self.window.last_key_press (None or Some(key))
    last_mouse_release, \* self.window.last_mouse_release
    now,                \* the value getTimeStamp() returns
    ws_made,            \* whether the WaitScreen is constructed
    ws_drawn,           \* whether draw() was called since reset()
    ws_ret              \* None, or Some(what is_done() last returned since reset())

wsVars == <<isRunning, isDone, t0, duration, waitKey, waitMouse,
            last_key_press, last_mouse_release, now, ws_made, ws_drawn, ws_ret>>

\* no WaitScreen is constructed
WSIdle ==
    /\ isRunning = FALSE /\ isDone = FALSE /\ t0 = <<>> /\ duration = <<>>
    /\ waitKey = FALSE /\ waitMouse = FALSE /\ last_key_press = <<>>
    /\ last_mouse_release = <<>> /\ now = 0 /\ ws_made = FALSE
    /\ ws_drawn = FALSE /\ ws_ret = <<>>

\* the variables analyse_dataset itself does not touch
nonAdVars == <<twVars, ttVars, gsVars, sgVars, slVars, wsVars>>

\* the variables analyse_train_test does not touch
nonTtVars == <<adVars, twVars, gsVars, sgVars, slVars, wsVars>>

\* the variables the grid search does not touch
nonGsVars == <<adVars, twVars, ttVars, sgVars, slVars, wsVars>>

\* the variables the screen graph does not touch
nonSgVars == <<adVars, twVars, ttVars, gsVars, slVars, wsVars>>

\* the variables the ScreenList does not touch
nonSlVars == <<adVars, twVars, ttVars, gsVars, sgVars, wsVars>>

\* the variables the WaitScreen does not touch
nonWsVars == <<adVars, twVars, ttVars, gsVars, sgVars, slVars>>

vars == <<adVars, nonAdVars>>

\* ------------------------------------------------------------- helpers
Range(s) == {s[i] : i \in DOMAIN s}

Injective(s) == \A i, j \in DOMAIN s : s[i] = s[j] => i = j

\* the trials 0..n-1 in ascending order (np.arange(n))
Arange(n) == [i \in 1..n |-> i - 1]

RECURSIVE SeqsUpTo(_, _)
\* all sequences over S of length <= n
SeqsUpTo(S, n) ==
    IF n = 0 THEN {<<>>}
    ELSE LET shorter == SeqsUpTo(S, n - 1)
         IN  shorter \cup {Append(s, x) : s \in {t \in shorter : Len(t) = n - 1}, x \in S}

Min(a, b) == IF a < b THEN a ELSE b

\* lists of distinct trial indices that leave at least one training trial
TestIdxLists(n) ==
    {s \in SeqsUpTo(0..(n - 1), Min(MaxTest, n - 1)) : Len(s) >= 1 /\ Injective(s)}

\* ------------------------------------------------ numpy index operations
\* np.flatnonzero(mask): the positions (trial numbers) where mask is True,
\* ascending
Flatnonzero(mask) == SelectSeq(Arange(Len(mask)), LAMBDA t : mask[t + 1])

\* T[idx, ...] for a list of trial indices: one entry per listed index, in
\* the order of the list
Take(T, idx) == [i \in 1..Len(idx) |-> T[idx[i] + 1]]

\* T[mask, ...] for a boolean mask: the entries where mask is True, ascending
TakeMask(T, mask) == Take(T, Flatnonzero(mask))

\* test_ind = np.zeros((n,), dtype=bool); test_ind[test_idx] = True
MaskOf(n, idx) == [i \in 1..n |-> (i - 1) \in Range(idx)]

\* (variant: the mask itself is returned, not its negation)
LogicalNot_Same(mask) == mask

\* np.logical_not(mask)
LogicalNot(mask) == [i \in DOMAIN mask |-> ~mask[i]]

\* T[..., mask, :, :] = V succeeds when V has one entry per True position of
\* mask, or a single entry (broadcast); otherwise numpy raises ValueError
CanAssignMask(mask, V) ==
    Len(V) = Len(Flatnonzero(mask)) \/ Len(V) = 1

\* T[..., mask, :, :] = V : the k-th entry of V goes to the k-th True
\* position of mask, counted in ascending order
AssignMask(T, mask, V) ==
    LET pos == Flatnonzero(mask)
    IN  [i \in DOMAIN T |->
            IF mask[i]
            THEN IF Len(V) = Len(pos)
                 THEN V[CHOOSE k \in DOMAIN pos : pos[k] = i - 1]
                 ELSE V[1]
            ELSE T[i]]

\* np.zeros(shape) with n entries on the trial axis
ZeroScore == [kind |-> "zero", trial |-> -1, seen |-> {}]
Zeros(n) == [i \in 1..n |-> ZeroScore]

\* ------------------------------------------------ collaborators
\* adapter.predict(X[...], Y[...]): one raw score per trial passed in, in the
\* order passed in, computed by the adapter from what it was fitted on
predict(c, trials) ==
    [i \in 1..Len(trials) |->
        [kind |-> "predict", trial |-> trials[i], seen |-> c.seen]]

\* adapter.cv_fit(X_train, Y_train, ...): a dict with the cross-validated
\* scores ('estimator') and the raw ones with the model axis
\* ('rawestimator'); the score of a trial comes from a fold that held it out
cv_fit(c, trials) ==
    [estimator    |-> [i \in 1..Len(trials) |->
                        [kind |-> "cv", trial |-> trials[i],
                         seen |-> Range(trials) \ {trials[i]}]],
     rawestimator |-> [i \in 1..Len(trials) |->
                        [kind |-> "cvraw", trial |-> trials[i],
                         seen |-> Range(trials) \ {trials[i]}]]]

\* the adapter after a fitting call (fit, or cv_fit's final fit) on trials
fitted(c, trials) == [c EXCEPT !.seen = @ \cup Range(trials)]

\* utils.block_permute(Y, n, axis=-1): n permuted columns along the last axis
block_permute(y, n) == [j \in 1..n |-> [src |-> "virt", col |-> j - 1]]

\* GridSearchCV(...).best_params_: the first grid point, in enumeration
\* order, that reaches the maximal mean_test_score
best_params_(grid, means) ==
    LET best == CHOOSE i \in DOMAIN means :
                    /\ \A j \in DOMAIN means : means[j] <= means[i]
                    /\ \A j \in 1..(i - 1) : means[j] < means[i]
    IN  grid[best]

\* one entry of the call log
Call(op, trials, outs, rk, param) ==
    [op |-> op, trials |-> trials, outs |-> outs, ranks |-> rk, param |-> param]

\* ------------------------------------------------ analyse_dataset, pieces
\* (variant: a missing rate counts as rate 0 instead of raising)
Ms2Samples_NoneAsZero(ms, f) == IF f = None THEN Some(0) ELSE Some((ms * Val(f)) \div 1000)

\* int(ms*fs/1000); with fs None the product raises TypeError (result None)
Ms2Samples(ms, f) == IF f = None THEN None ELSE Some((ms * Val(f)) \div 1000)

\* the sample rate after lines 70-74: coords[1]['fs'] when coords is given,
\* else the fs argument as it was passed (possibly None)
SampleRate(c, f) == IF c # None THEN c ELSE f

\* a freshly constructed adapter of class cls
NewAdapter(cls) == [cls |-> cls, origin |-> "constructed", param |-> 0, seen |-> {}]

\* the pre-built adapter object a caller passes as `model`
InstanceOf(m) ==
    [cls |-> IF m = "inst:MultiCCA" THEN "MultiCCA" ELSE "BwdLinearRegression",
     origin |-> m, param |-> 0, seen |-> {}]

\* line 99: isinstance(model, sklearn.linear_model) or isinstance(model,
\* sklearn.svm).  Lines 21-24 import names *from* sklearn; the name `sklearn`
\* itself is never bound in the module, so evaluating the test raises
SklearnTest(m) == "NameError"

\* lines 82-104: the dispatch on `model`; the adapter, or the exception
ModelDispatch(m) ==
    IF m \in Instances THEN [err |-> None, clsfr |-> Some(InstanceOf(m))]
    ELSE IF m = "cca" \/ m = "None" THEN [err |-> None, clsfr |-> Some(NewAdapter("MultiCCA"))]
    ELSE IF m = "bwd" THEN [err |-> None, clsfr |-> Some(NewAdapter("BwdLinearRegression"))]
    ELSE IF m = "fwd" THEN [err |-> None, clsfr |-> Some(NewAdapter("FwdLinearRegression"))]
    ELSE IF m \in {"ridge", "lr", "svr", "svc"} THEN [err |-> None, clsfr |-> Some(NewAdapter("LinearSklearn"))]
    ELSE IF SklearnTest(m) \notin {"True", "False"} THEN [err |-> Some(SklearnTest(m)), clsfr |-> None]
    ELSE IF SklearnTest(m) = "True" THEN [err |-> None, clsfr |-> Some(NewAdapter("LinearSklearn"))]
    ELSE IF m = "linearsklearn" THEN [err |-> None, clsfr |-> Some(NewAdapter("LinearSklearn"))]
    ELSE [err |-> Some("NotImplementedError"), clsfr |-> None]

\* (variant: the virtual outputs are put in front of the true ones)
AugmentY_VirtFirst(y, n) == block_permute(y, n) \o y

\* lines 108-110: Y = np.concatenate((Y, Y_virt), -1)
AugmentY(y, n) == y \o block_permute(y, n)

\* (variant: the train mask is not applied)
SplitTrain_All(x, tidx, mask) == x

\* lines 113-122: the trials handed to the fitting calls
SplitTrain(x, tidx, mask) == IF tidx = None THEN x ELSE TakeMask(x, mask)

\* BaseEstimator.set_params(**params) on the adapter
set_params(c, p) == [c EXCEPT !.param = p]

\* (variant: the adapter is left as constructed)
ConfigureBest_Skip(c, grid, means) == c

\* line 137: clsfr.set_params(**cv_clsfr.best_params_)
ConfigureBest(c, grid, means) == set_params(c, best_params_(grid, means))

\* (variant: the rank candidates are handed on whatever the adapter is)
RanksPassed_Always(rk, c) == rk

\* lines 140-145: the rank candidates handed to cv_fit
RanksPassed(rk, c) == IF rk # None /\ c.cls = "MultiCCA" THEN rk ELSE None

\* line 156: res['rawestimator'] if 'rawestimator' in res else Fy
RawOf(r, f) == IF "rawestimator" \in DOMAIN r THEN r.rawestimator ELSE f

\* (variant: the spliced tensor is not put back into the dict)
StoreRaw_Forgotten(r, raw) ==
    [estimator |-> r.estimator,
     rawestimator |-> IF "rawestimator" \in DOMAIN r THEN r.rawestimator ELSE r.estimator]

\* line 167: res['rawestimator'] = rawFy
StoreRaw(r, raw) == [estimator |-> r.estimator, rawestimator |-> raw]

\* the caller's Y after a call: lines 108-110 rebind the local name Y to a
\* new array (np.concatenate), the caller's array y0 is left as it was
CallerY_InPlace(y0, ylocal) == ylocal

CallerY(y0, ylocal) == y0

\* the tuned parameter's candidate values, in grid enumeration order
Grid == [i \in 1..GridSize |-> 10 * i]

\* ------------------------------------------------ the state machine
\* the arguments of one call of analyse_dataset, and its unbound locals
Init ==
    /\ pc = "extract"
    /\ err = None
    /\ \E n \in 1..MaxTrials :
          /\ X = Arange(n)
          /\ test_idx \in {None} \cup {Some(s) : s \in TestIdxLists(n)}
    /\ \E nY \in 1..MaxY : Y = [o \in 1..nY |-> [src |-> "Y", col |-> o - 1]]
    /\ oY = <<>>
    /\ coords \in {None, Some(100)}
    /\ fs \in {None, Some(250)}
    /\ coords # None => fs = None
    /\ model \in ModelArgs
    /\ cv \in BOOLEAN
    /\ n_virt_out \in {None} \cup {Some(k) : k \in 1..MaxVirt}
    /\ tuned_parameters \in {None, Some(Grid)}
    /\ ranks \in {None, Some(<<1, 2>>)}
    /\ tau = None
    /\ clsfr = None
    /\ train_ind = <<>>
    /\ test_ind = <<>>
    /\ X_train = <<>>
    /\ cv_clsfr = None
    /\ res = None
    /\ Fy = <<>>
    /\ rawFy = <<>>
    /\ calls = <<>>
    /\ ret = <<>>
    /\ run = 1
    /\ argY = Y
    /\ prev = None
    /\ TTIdle
    /\ GSIdle
    /\ SGIdle
    /\ SLIdle
    /\ WSIdle

\* raise exc out of analyse_dataset
Raise(exc) == pc' = "failed" /\ err' = Some(exc)

\* lines 69-76: sample rate, tau and offset in samples.  With coords=None
\* and fs=None the product tau_ms*fs is int*NoneType: TypeError
ExtractInfo ==
    /\ pc = "extract"
    /\ fs' = SampleRate(coords, fs)
    /\ IF Ms2Samples(tau_ms, fs') = None
       THEN Raise("TypeError") /\ UNCHANGED tau
       ELSE /\ tau' = Ms2Samples(tau_ms, fs')
            /\ pc' = "model"
            /\ UNCHANGED err
    /\ UNCHANGED <<X, Y, oY, coords, model, test_idx, cv, n_virt_out,
                   tuned_parameters, ranks, clsfr, train_ind, test_ind,
                   X_train, cv_clsfr, res, Fy, rawFy, calls, ret>>
    /\ UNCHANGED nonAdVars

\* lines 82-104: create the model if not provided
CreateModel ==
    /\ pc = "model"
    /\ LET d == ModelDispatch(model)
       IN  IF d.err # None
           THEN Raise(Val(d.err)) /\ UNCHANGED clsfr
           ELSE clsfr' = d.clsfr /\ pc' = "virt" /\ UNCHANGED err
    /\ UNCHANGED <<X, Y, oY, coords, fs, model, test_idx, cv, n_virt_out,
                   tuned_parameters, ranks, tau, train_ind, test_ind,
                   X_train, cv_clsfr, res, Fy, rawFy, calls, ret>>
    /\ UNCHANGED nonAdVars

\* lines 106-110: add virtual outputs if wanted
AddVirtualOutputs ==
    /\ pc = "virt"
    /\ IF n_virt_out # None
       THEN oY' = Y /\ Y' = AugmentY(Y, Val(n_virt_out))
       ELSE UNCHANGED <<Y, oY>>
    /\ pc' = "split"
    /\ UNCHANGED <<err, X, coords, fs, model, test_idx, cv, n_virt_out,
                   tuned_parameters, ranks, tau, clsfr, train_ind, test_ind,
                   X_train, cv_clsfr, res, Fy, rawFy, calls, ret>>
    /\ UNCHANGED nonAdVars

\* lines 112-122: do train/test split
TrainTestSplit ==
    /\ pc = "split"
    /\ IF test_idx = None
       THEN UNCHANGED <<train_ind, test_ind>>
       ELSE /\ test_ind' = MaskOf(Len(X), Val(test_idx))
            /\ train_ind' = LogicalNot(test_ind')
    /\ X_train' = SplitTrain(X, test_idx, train_ind')
    /\ pc' = "fit"
    /\ UNCHANGED <<err, X, Y, oY, coords, fs, model, test_idx, cv, n_virt_out,
                   tuned_parameters, ranks, tau, clsfr, cv_clsfr, res, Fy,
                   rawFy, calls, ret>>
    /\ UNCHANGED nonAdVars

\* lines 127-137: hyper-parameter optimization with GridSearchCV, then
\* configure the adapter with the best grid point.  The mean held-out score
\* of each grid point is whatever the search measures.
HyperParamSearch ==
    /\ pc = "fit" /\ cv /\ tuned_parameters # None
    /\ \E means \in [1..Len(Val(tuned_parameters)) -> 0..MaxScore] :
         LET grid == Val(tuned_parameters)
             best == best_params_(grid, means)
         IN  /\ cv_clsfr' = Some([means |-> means, best |-> best])
             /\ clsfr' = Some(ConfigureBest(Val(clsfr), grid, means))
             /\ calls' = calls
                    \o <<Call("GridSearchCV.fit", X_train, Y, None, Val(clsfr).param),
                         Call("set_params", <<>>, <<>>, None, Val(clsfr').param)>>
    /\ pc' = "cvfit"
    /\ UNCHANGED <<err, X, Y, oY, coords, fs, model, test_idx, cv, n_virt_out,
                   tuned_parameters, ranks, tau, train_ind, test_ind, X_train,
                   res, Fy, rawFy, ret>>
    /\ UNCHANGED nonAdVars

\* lines 140-147: cross-validated fit, with the rank candidates or plain
CvFit ==
    /\ \/ pc = "cvfit"
       \/ pc = "fit" /\ cv /\ tuned_parameters = None
    /\ LET c == Val(clsfr)
           r == cv_fit(c, X_train)
       IN  /\ calls' = Append(calls, Call("cv_fit", X_train, Y, RanksPassed(ranks, c), c.param))
           /\ clsfr' = Some(fitted(c, X_train))
           /\ res' = Some(r)
           /\ Fy' = r.estimator
    /\ pc' = "splice"
    /\ UNCHANGED <<err, X, Y, oY, coords, fs, model, test_idx, cv, n_virt_out,
                   tuned_parameters, ranks, tau, train_ind, test_ind, X_train,
                   cv_clsfr, rawFy, ret>>
    /\ UNCHANGED nonAdVars

\* lines 149-153: cv is false: fit once, predict on all of X
Fit ==
    /\ pc = "fit" /\ ~cv
    /\ LET c == fitted(Val(clsfr), X_train)
       IN  /\ clsfr' = Some(c)
           /\ Fy' = predict(c, X)
           /\ res' = Some([estimator |-> Fy'])
           /\ calls' = calls \o <<Call("fit", X_train, Y, None, c.param),
                                  Call("predict", X, Y, None, c.param)>>
    /\ pc' = "splice"
    /\ UNCHANGED <<err, X, Y, oY, coords, fs, model, test_idx, cv, n_virt_out,
                   tuned_parameters, ranks, tau, train_ind, test_ind, X_train,
                   cv_clsfr, rawFy, ret>>
    /\ UNCHANGED nonAdVars

\* lines 155-167: take the raw scores; with a test_idx predict on the
\* hold-out trials and insert both into a tensor over all trials
Splice ==
    /\ pc = "splice"
    /\ LET raw == RawOf(Val(res), Fy)
       IN  IF test_idx = None
           THEN /\ rawFy' = raw
                /\ pc' = "score"
                /\ UNCHANGED <<err, res, calls>>
           ELSE LET c == Val(clsfr)
                    trials == Take(X, Val(test_idx))
                    Fy_test == predict(c, trials)
                    allFy0 == Zeros(Len(X))
                    allFy1 == AssignMask(allFy0, train_ind, raw)
                    allFy2 == AssignMask(allFy1, test_ind, Fy_test)
                IN  /\ calls' = Append(calls, Call("predict", trials, Y, None, c.param))
                    /\ IF CanAssignMask(train_ind, raw) /\ CanAssignMask(test_ind, Fy_test)
                       THEN /\ rawFy' = allFy2
                            /\ res' = Some(StoreRaw(Val(res), allFy2))
                            /\ pc' = "score"
                            /\ UNCHANGED err
                       ELSE Raise("ValueError") /\ UNCHANGED <<rawFy, res>>
    /\ UNCHANGED <<X, Y, oY, coords, fs, model, test_idx, cv, n_virt_out,
                   tuned_parameters, ranks, tau, clsfr, train_ind, test_ind,
                   X_train, cv_clsfr, Fy, ret>>
    /\ UNCHANGED nonAdVars

\* lines 169-177: score, decoding curve, return the 5-tuple
Return ==
    /\ pc = "score"
    /\ ret' = <<[audc_score |-> rawFy], [decodingCurveSupervised |-> rawFy],
                Fy, Val(clsfr), Val(res)>>
    /\ pc' = "done"
    /\ UNCHANGED <<err, X, Y, oY, coords, fs, model, test_idx, cv, n_virt_out,
                   tuned_parameters, ranks, tau, clsfr, train_ind, test_ind,
                   X_train, cv_clsfr, res, Fy, rawFy, calls>>
    /\ UNCHANGED nonAdVars

Next ==
    \/ ExtractInfo
    \/ CreateModel
    \/ AddVirtualOutputs
    \/ TrainTestSplit
    \/ HyperParamSearch
    \/ CvFit
    \/ Fit
    \/ Splice
    \/ Return

Spec == Init /\ [][Next]_vars

\* ------------------------------------------------ derived notions
\* the trials listed in test_idx
TestSet == IF test_idx = None THEN {} ELSE Range(Val(test_idx))

\* the trials not listed in test_idx
TrainSet == Range(X) \ TestSet

FittingOps == {"GridSearchCV.fit", "cv_fit", "fit"}

\* the entries of the call log with the given operation
CallsOf(op) == {i \in DOMAIN calls : calls[i].op = op}

\* the fitting block (lines 124-153) has been left
FitDone == pc \in {"splice", "score", "done"} \/ (pc = "failed" /\ err = Some("ValueError"))

\* lines 155-167 have been left without an exception
SpliceDone == pc \in {"score", "done"}

\* ------------------------------------------------ claims
\* C1: with cv enabled and test_idx supplied, the full raw-score tensor kept
\* in the diagnostics has one entry per trial, holds at every training-trial
\* position the cross-validated score cv_fit returned for that trial, and at
\* every test-trial position the score predict returned for that trial.
C1_SplicedTensor ==
    (SpliceDone /\ cv /\ test_idx # None) =>
        LET full == Val(res).rawestimator
            cvd == cv_fit(Val(clsfr), X_train).rawestimator
            tst == predict(Val(clsfr), Take(X, Val(test_idx)))
        IN  /\ Len(full) = Len(X)
            /\ \A i \in DOMAIN X_train : full[X_train[i] + 1] = cvd[i]
            /\ \A i \in DOMAIN Val(test_idx) : full[Val(test_idx)[i] + 1] = tst[i]

\* C2: with test_idx supplied, no fitting call (GridSearchCV.fit, cv_fit,
\* fit) ever receives a trial listed in test_idx, and the scores at the test
\* positions come from a model that never saw a test trial.
C2_NoTestTrialFitted ==
    test_idx # None =>
        /\ \A i \in DOMAIN calls :
              calls[i].op \in FittingOps => Range(calls[i].trials) \cap TestSet = {}
        /\ SpliceDone =>
              \A t \in TestSet : /\ rawFy[t + 1].kind = "predict"
                                 /\ rawFy[t + 1].seen \cap TestSet = {}

C2_Witness ==
    /\ pc = "done" /\ test_idx # None
    /\ CallsOf("GridSearchCV.fit") # {} /\ CallsOf("cv_fit") # {}
    /\ Cardinality(TestSet) = 2

\* C3: analyse_dataset with cv=False and a test_idx completes without error,
\* fitting on the training trials only, and the raw-score tensor at the test
\* positions derives solely from the train-fitted model.
C3_NoCvWithTestIdx ==
    (~cv /\ test_idx # None /\ clsfr # None) =>
        /\ err = None
        /\ \A i \in CallsOf("fit") : Range(calls[i].trials) = TrainSet
        /\ SpliceDone => \A t \in TestSet : rawFy[t + 1].seen = TrainSet

\* C4: the train_ind and test_ind masks are disjoint: no trial is marked
\* both train and test.
C4_MasksDisjoint ==
    /\ Len(train_ind) = Len(test_ind)
    /\ \A i \in DOMAIN train_ind : ~(train_ind[i] /\ test_ind[i])

C4_Witness ==
    /\ \E i \in DOMAIN test_ind : test_ind[i]
    /\ \E i \in DOMAIN train_ind : train_ind[i]
    /\ Len(train_ind) = Len(X)

\* C5: for every token in {cca, bwd, fwd, ridge, lr, svr, svc, linearsklearn}
\* the adapter is constructed and the call proceeds to fitting without
\* raising; a pre-built instance is used as the adapter unchanged.
C5_EveryTokenConstructs ==
    (model \in Tokens \cup Instances /\ tau # None /\ pc # "model") =>
        /\ clsfr # None
        /\ pc = "failed" => calls # <<>>
        /\ (model \in Instances /\ calls = <<>>) => Val(clsfr) = InstanceOf(model)

\* C6: a model argument that is neither a recognised token nor a pre-built
\* instance fails with the unknown-model error of the final else branch
\* (NotImplementedError), before any split, fit or predict.
C6_UnknownModelError ==
    (model \notin Tokens \cup Instances \cup {"None"} /\ tau # None /\ pc # "model") =>
        /\ pc = "failed"
        /\ err = Some("NotImplementedError")
        /\ calls = <<>> /\ X_train = <<>> /\ train_ind = <<>>

\* C7 (as claimed): with coords=None and fs=None the call fails with a
\* dedicated missing-sample-rate error, before any model is constructed or
\* fitted.
C7_DedicatedError ==
    (coords = None /\ fs = None /\ pc # "extract") =>
        /\ pc = "failed"
        /\ err = Some("MissingSampleRateError")
        /\ clsfr = None /\ calls = <<>>

\* C7 (amended): with coords=None and fs=None the call fails with the
\* TypeError of the tau computation (tau_ms*fs with fs None), before any
\* model is constructed or fitted.
C7_TypeErrorBeforeModel ==
    (coords = None /\ fs = None /\ pc # "extract") =>
        /\ pc = "failed"
        /\ err = Some("TypeError")
        /\ tau = None /\ clsfr = None /\ calls = <<>>

C7_Witness == pc = "failed" /\ coords = None /\ fs = None /\ err # None

C9_RanksWheneverSupplied ==
    FitDone =>
        IF cv
        THEN /\ Cardinality(CallsOf("cv_fit")) = 1
             /\ CallsOf("fit") = {}
             /\ \A i \in CallsOf("cv_fit") :
                   /\ calls[i].ranks = ranks
                   /\ Range(calls[i].trials) = TrainSet
        ELSE /\ CallsOf("cv_fit") = {}
             /\ Cardinality(CallsOf("fit")) = 1
             /\ \A i \in CallsOf("fit") : Range(calls[i].trials) = TrainSet

\* C9 (amended): with cv exactly one cv_fit call is made, with the rank
\* candidates passed on when ranks is supplied and the adapter is a MultiCCA,
\* and plain otherwise; without cv, cv_fit is never called and fit is called
\* exactly once, on the training trials only.
C9_RanksOnlyForMultiCCA ==
    FitDone =>
        IF cv
        THEN /\ Cardinality(CallsOf("cv_fit")) = 1
             /\ CallsOf("fit") = {}
             /\ \A i \in CallsOf("cv_fit") :
                   /\ calls[i].ranks =
                         (IF ranks # None /\ Val(clsfr).cls = "MultiCCA" THEN ranks ELSE None)
                   /\ Range(calls[i].trials) = TrainSet
        ELSE /\ CallsOf("cv_fit") = {}
             /\ Cardinality(CallsOf("fit")) = 1
             /\ \A i \in CallsOf("fit") : Range(calls[i].trials) = TrainSet

C9_Witness ==
    /\ FitDone /\ cv /\ ranks # None
    /\ Val(clsfr).cls # "MultiCCA"
    /\ \E i \in CallsOf("cv_fit") : calls[i].ranks = None

\* C10: with tuned_parameters and cv, the adapter is set to the grid point
\* with the best mean held-out score before the cv_fit call, so the
\* cross-validated scores and the returned model use the selected value.
C10_BestConfiguredBeforeCvFit ==
    (FitDone /\ cv /\ tuned_parameters # None) =>
        \E i, j \in DOMAIN calls :
            /\ i < j
            /\ calls[i].op = "set_params"
            /\ calls[j].op = "cv_fit"
            /\ \E g \in DOMAIN Val(tuned_parameters) :
                  /\ Val(tuned_parameters)[g] = calls[i].param
                  /\ \A h \in DOMAIN Val(tuned_parameters) :
                        Val(cv_clsfr).means[h] <= Val(cv_clsfr).means[g]
            /\ calls[j].param = calls[i].param
            /\ Val(clsfr).param = calls[i].param
            /\ pc = "done" => ret[4].param = calls[i].param

C10_Witness ==
    /\ pc = "done" /\ cv /\ tuned_parameters # None
    /\ Val(clsfr).param = Val(tuned_parameters)[Len(Val(tuned_parameters))]
    /\ \E h \in DOMAIN Val(cv_clsfr).means : Val(cv_clsfr).means[h] = 0

ArgFs == IF coords # None THEN None ELSE fs

\* The caller calls analyse_dataset again with the arguments of the first
\* call: every local is unbound again, the model token makes the dispatch
\* construct a new adapter.  (A pre-built instance would come back with the
\* state the first call left in it; such a caller is not followed here.)
Rerun ==
    /\ run = 1
    /\ pc \in {"done", "failed"}
    /\ model \notin Instances
    /\ run' = 2
    /\ prev' = Some([calls |-> calls, clsfr |-> clsfr, err |-> err])
    /\ pc' = "extract"
    /\ err' = None
    /\ Y' = CallerY(argY, Y)
    /\ argY' = Y'
    /\ fs' = ArgFs
    /\ oY' = <<>> /\ tau' = None /\ clsfr' = None
    /\ train_ind' = <<>> /\ test_ind' = <<>> /\ X_train' = <<>>
    /\ cv_clsfr' = None /\ res' = None
    /\ Fy' = <<>> /\ rawFy' = <<>> /\ calls' = <<>> /\ ret' = <<>>
    /\ UNCHANGED <<X, coords, model, test_idx, cv, n_virt_out, tuned_parameters, ranks>>
    /\ UNCHANGED <<ttVars, gsVars, sgVars, slVars, wsVars>>

NextTwice == Next \/ Rerun

SpecTwice == Init /\ [][NextTwice]_vars

SliceOf(start, stop) == [slice |-> TRUE, start |-> start, stop |-> stop, idx |-> <<>>]
ListOf(idx) == [slice |-> FALSE, start |-> None, stop |-> None, idx |-> idx]

\* np.arange(n)[spec]
ArangeAt(n, spec) ==
    IF spec.slice
    THEN LET lo == IF spec.start = None THEN 0 ELSE Val(spec.start)
             hi == IF spec.stop = None THEN n ELSE Val(spec.stop)
         IN  SelectSeq(Arange(n), LAMBDA t : lo <= t /\ t < hi)
    ELSE Take(Arange(n), spec.idx)

\* (variant: the range starts at 0)
PyRange_FromZero(start, stop, step) ==
    [k \in 1..(IF stop > 0 THEN (stop + step - 1) \div step ELSE 0) |-> (k - 1) * step]

\* range(start, stop, step) for step >= 1
PyRange(start, stop, step) ==
    [k \in 1..(IF stop > start THEN (stop - start + step - 1) \div step ELSE 0) |->
        start + (k - 1) * step]

\* lines 252-255: one fold (slice(tsti), slice(tsti, None)) per tsti of
\* range(splitsize, maxsize, splitsize)
GenSplits(step, n) ==
    LET r == PyRange(step, n, step)
    IN  [k \in DOMAIN r |-> [trn |-> SliceOf(None, Some(r[k])),
                             tst |-> SliceOf(Some(r[k]), None)]]

\* explicit folds a caller can pass: a pair of lists of trials, ascending
AscLists(n) == {Flatnonzero(m) : m \in [1..n -> BOOLEAN]}
ExplicitFolds(n) == {[trn |-> ListOf(a), tst |-> ListOf(b)] : a, b \in AscLists(n)}

\* (variant: four names for four values)
Unpack4_Five(t) == Len(t) = 5

\* line 275: `score, decoding_curve, Fy, clsfr = ...` succeeds on a 4-tuple
Unpack4(t) == Len(t) = 4

\* analyse_dataset(X, Y, coords, model, cv=cv, retrain_on_all=False) as
\* analyse_train_test calls it: cv is a fold list (true), test_idx, fs,
\* n_virt_out, tuned_parameters and ranks keep their defaults.  The result
\* of lines 69-177: the exception or the returned tuple, and the calls made
AnalyseDatasetCV(x, y, crd, f, mdl) ==
    LET t == Ms2Samples(tau_ms, SampleRate(crd, f))
        d == ModelDispatch(mdl)
    IN  IF t = None THEN [err |-> Some("TypeError"), ret |-> <<>>, calls |-> <<>>]
        ELSE IF d.err # None THEN [err |-> d.err, ret |-> <<>>, calls |-> <<>>]
        ELSE LET c == Val(d.clsfr)
                 xt == SplitTrain(x, None, <<>>)
                 r == cv_fit(c, xt)
                 raw == RawOf(r, r.estimator)
             IN  [err |-> None,
                  ret |-> <<[audc_score |-> raw], [decodingCurveSupervised |-> raw],
                            r.estimator, fitted(c, xt), r>>,
                  calls |-> <<Call("cv_fit", xt, y, RanksPassed(None, c), c.param)>>]

\* the stimulus tensor analyse_train_test is given: one output
TT_Y == <<[src |-> "Y", col |-> 0]>>

InitTT ==
    /\ ADIdle
    /\ GSIdle
    /\ SGIdle
    /\ SLIdle
    /\ WSIdle
    /\ tt_pc = "start" /\ tt_err = None
    /\ \E n \in 1..MaxTrials :
          /\ tt_X = Arange(n)
          /\ splits \in {[isint |-> TRUE, step |-> k, folds |-> <<>>] : k \in 0..MaxTrials}
                   \cup {[isint |-> FALSE, step |-> 0, folds |-> fl] :
                            fl \in SeqsUpTo(ExplicitFolds(n), MaxSplits)}
    /\ tt_coords \in {None, Some(100)}
    /\ tt_model \in {"cca", "nosuchmodel"}
    /\ splitsize = None /\ tt_i = 0
    /\ labels = <<>> /\ scores = <<>> /\ decoding_curves = <<>>
    /\ Ws = <<>> /\ Rs = <<>> /\ tt_calls = <<>>

RaiseTT(exc) == tt_pc' = "failed" /\ tt_err' = Some(exc)

\* lines 246-259: an int `splits` is a step size: build the growing-window
\* folds (range() with step 0 raises ValueError)
MakeSplits ==
    /\ tt_pc = "start"
    /\ IF splits.isint
       THEN IF splits.step = 0
            THEN RaiseTT("ValueError") /\ UNCHANGED <<splits, splitsize>>
            ELSE /\ splitsize' = Some(splits.step)
                 /\ splits' = [isint |-> FALSE, step |-> 0,
                               folds |-> GenSplits(splits.step, Len(tt_X))]
                 /\ tt_pc' = "loop"
                 /\ UNCHANGED tt_err
       ELSE tt_pc' = "loop" /\ UNCHANGED <<splits, splitsize, tt_err>>
    /\ UNCHANGED <<tt_X, tt_coords, tt_model, tt_i, labels, scores,
                   decoding_curves, Ws, Rs, tt_calls>>
    /\ UNCHANGED nonTtVars

\* lines 267-279: one iteration of the loop over splits
RunSplit ==
    /\ tt_pc = "loop"
    /\ tt_i < Len(splits.folds)
    /\ tt_i' = tt_i + 1
    /\ LET fold == splits.folds[tt_i + 1]
           trnIdx == ArangeAt(Len(tt_X), fold.trn)
           tstIdx == ArangeAt(Len(tt_X), fold.tst)
           lab == [ntrn |-> Len(trnIdx), ntst |-> Len(tstIdx), fold |-> tt_i]
           r == AnalyseDatasetCV(tt_X, TT_Y, tt_coords, None, tt_model)
       IN  IF trnIdx = <<>> \/ tstIdx = <<>>
           THEN /\ RaiseTT("IndexError")
                /\ UNCHANGED <<labels, scores, decoding_curves, Ws, Rs, tt_calls>>
           ELSE /\ labels' = Append(labels, lab)
                /\ tt_calls' = tt_calls \o [k \in DOMAIN r.calls |->
                                               [fold |-> tt_i + 1, call |-> r.calls[k]]]
                /\ IF r.err # None
                   THEN /\ RaiseTT(Val(r.err))
                        /\ UNCHANGED <<scores, decoding_curves, Ws, Rs>>
                   ELSE IF ~Unpack4(r.ret)
                   THEN /\ RaiseTT("ValueError")
                        /\ UNCHANGED <<scores, decoding_curves, Ws, Rs>>
                   ELSE /\ decoding_curves' = Append(decoding_curves, r.ret[2])
                        /\ scores' = Append(scores, r.ret[1])
                        /\ Ws' = Append(Ws, r.ret[4])
                        /\ Rs' = Append(Rs, r.ret[4])
                        /\ UNCHANGED <<tt_pc, tt_err>>
    /\ UNCHANGED <<tt_X, tt_coords, tt_model, splits, splitsize>>
    /\ UNCHANGED nonTtVars

\* lines 281-312: plot and collate; sum(scores)/len(scores) raises
\* ZeroDivisionError when no split was run
Collate ==
    /\ tt_pc = "loop"
    /\ tt_i = Len(splits.folds)
    /\ IF scores = <<>>
       THEN RaiseTT("ZeroDivisionError")
       ELSE tt_pc' = "done" /\ UNCHANGED tt_err
    /\ UNCHANGED <<tt_X, tt_coords, tt_model, splits, splitsize, tt_i, labels,
                   scores, decoding_curves, Ws, Rs, tt_calls>>
    /\ UNCHANGED nonTtVars

NextTT == MakeSplits \/ RunSplit \/ Collate

SpecTT == InitTT /\ [][NextTT]_vars

\* the trials a fold names, as sets
TrnOf(fold) == Range(ArangeAt(Len(tt_X), fold.trn))
TstOf(fold) == Range(ArangeAt(Len(tt_X), fold.tst))

\* C13: for 1 <= step < nTrials the generated folds are: fold k trains on
\* [0, k*step) and tests on [k*step, nTrials), for every k*step below
\* nTrials; train and test sets are disjoint and non-empty and the train
\* sizes strictly increase.
C13_GrowingWindowFolds ==
    (splitsize # None /\ Val(splitsize) < Len(tt_X)) =>
        LET step == Val(splitsize)
            n == Len(tt_X)
            folds == splits.folds
        IN  /\ Len(folds) = Cardinality({k \in 1..n : k * step < n})
            /\ \A k \in DOMAIN folds :
                  /\ TrnOf(folds[k]) = 0..(k * step - 1)
                  /\ TstOf(folds[k]) = (k * step)..(n - 1)
                  /\ TrnOf(folds[k]) \cap TstOf(folds[k]) = {}
                  /\ TrnOf(folds[k]) # {} /\ TstOf(folds[k]) # {}
                  /\ k > 1 => Cardinality(TrnOf(folds[k - 1])) < Cardinality(TrnOf(folds[k]))

C13_Witness ==
    /\ splitsize = Some(1) /\ Len(tt_X) = 3 /\ Len(splits.folds) = 2
    /\ tt_i = 1

\* C14: an explicit fold whose train and test sets share a trial is
\* rejected with an overlapping-split error and no model is fitted on it
\* (stated for calls whose sample rate and model token are in order).
C14_OverlapRejected ==
    \A k \in 1..tt_i :
        (/\ tt_coords # None /\ tt_model \in Tokens
         /\ TrnOf(splits.folds[k]) \cap TstOf(splits.folds[k]) # {}) =>
            /\ tt_err = Some("OverlappingSplitError")
            /\ \A c \in DOMAIN tt_calls : tt_calls[c].fold # k

\* C23: for every test_idx list, in whatever order it names the trials, the
\* prediction computed for test trial t is stored at trial position t of
\* the full raw-score tensor.
C23_TestOrderIrrelevant ==
    (SpliceDone /\ test_idx # None) =>
        \A t \in TestSet :
            /\ t + 1 \in DOMAIN rawFy
            /\ rawFy[t + 1].kind = "predict"
            /\ rawFy[t + 1].trial = t

\* C24: analyse_train_test takes the result of every analyse_dataset call
\* without error and holds, after each split, one label, one score, one
\* decoding curve and one pair of model weights per split run, in split
\* order (stated for calls whose sample rate and model token are in order
\* and folds that name at least one train and one test trial).
C24_OnePerSplit ==
    (/\ tt_i >= 1 /\ tt_coords # None /\ tt_model \in Tokens
     /\ \A k \in 1..tt_i : TrnOf(splits.folds[k]) # {} /\ TstOf(splits.folds[k]) # {}) =>
        /\ tt_err = None
        /\ Len(labels) = tt_i /\ Len(scores) = tt_i
        /\ Len(decoding_curves) = tt_i /\ Len(Ws) = tt_i /\ Len(Rs) = tt_i
        /\ \A k \in 1..tt_i : labels[k].fold = k - 1

\* ---------------------------------------------------------------------
\* dataset_GridSearchCV (lines 915-975) and its drivers (lines 977-1065)
\* ---------------------------------------------------------------------

\* the loader_args the caller gave, and the value a grid point may put in
\* their place through a "loader_args_..." key
BaseArgs == "base"
AltArgs == "alt"

\* ParameterGrid(tuned_parameters): each grid point either has no
\* loader_args key or overrides the loader arguments
Configs == [la : {None, Some(AltArgs)}]

\* lines 923, 930-932: loader_args_f, the loader arguments of a grid point
loader_args_f(fit_config) ==
    IF fit_config.la = None THEN BaseArgs ELSE Val(fit_config.la)

\* line 943: the file is (re)loaded for the first grid point and for every
\* grid point whose loader arguments differ from the caller's
NeedsLoad(ci, fit_config) == ci = 0 \/ loader_args_f(fit_config) # BaseArgs

\* line 945: the arguments the loader is called with
LoaderCallArgs(fit_config) == BaseArgs

\* the score and the decoding curve analyse_dataset returns for a file, a
\* grid point and the data it was given
ScoreOf(file, ci, data) == [what |-> "score", file |-> file, ci |-> ci, data |-> data]
CurveOf(file, ci, data) == [what |-> "curve", file |-> file, ci |-> ci, data |-> data]

\* lines 964-974: store one analysis result under index ci (0-based)
Store(r, ci, filename, score, decoding_curve) ==
    LET r1 == IF Len(r) <= ci
              THEN r \o [k \in 1..(ci + 1 - Len(r)) |-> None]
              ELSE r
    IN  IF r1[ci + 1] = None
        THEN [r1 EXCEPT ![ci + 1] =
                 Some([config |-> ci, filenames |-> <<filename>>,
                       scores |-> <<score>>,
                       decoding_curves |-> <<decoding_curve>>])]
        ELSE [r1 EXCEPT ![ci + 1] =
                 Some([config |-> ci,
                       filenames |-> Append(Val(r1[ci + 1]).filenames, filename),
                       scores |-> Append(Val(r1[ci + 1]).scores, score),
                       decoding_curves |->
                           Append(Val(r1[ci + 1]).decoding_curves, decoding_curve)])]

\* lines 906-912: print_hyperparam_summary fails on an empty list (res[0])
\* and on a None entry (ri['config'])
SummaryError(r) ==
    IF r = <<>> THEN Some("IndexError")
    ELSE IF \E i \in DOMAIN r : r[i] = None THEN Some("TypeError")
    ELSE None

\* a call of dataset_GridSearchCV that has not begun
NoCall == [st |-> "idle", ci |-> 0, oX |-> None, res |-> <<>>, err |-> None,
           bad |-> {}]

\* a call of dataset_GridSearchCV entered with the list r
Entered(r) == [NoCall EXCEPT !.st = "running", !.res = r]

\* the number of grid points
nCfg == Len(gs_configs)

\* the files of the dataset
Files == DOMAIN wk

InitGS ==
    /\ ADIdle
    /\ TTIdle
    /\ SGIdle
    /\ SLIdle
    /\ WSIdle
    /\ gs_mode \in {"sequential", "concurrent"}
    /\ gs_pc = "start"
    /\ gs_err = None
    /\ gs_res = <<>>
    /\ gs_file = 0
    /\ \E n \in 1..MaxFiles :
          /\ wk = [f \in 1..n |-> NoCall]
          /\ gs_loadFails \in SUBSET (1..n)
    /\ completed = <<>>
    /\ early = None
    /\ collected = <<>>
    /\ written = 0
    /\ gs_configs \in {c \in SeqsUpTo(Configs, MaxCfg) : c # <<>>}

\* the call for file f ends: by return (error None) or by an exception
Ended(f, w) ==
    /\ wk' = [wk EXCEPT ![f] = w]
    /\ completed' = IF w.st \in {"returned", "raised"}
                    THEN Append(completed, f) ELSE completed

\* the state of a call after grid point ci1 (1-based) is through
AfterConfig(w, ci1) ==
    [w EXCEPT !.ci = ci1,
              !.st = IF ci1 = nCfg THEN "returned" ELSE "running"]

\* lines 919-974: one pass of the loop over the grid in the call for file f
StepConfig(f) ==
    /\ gs_pc \in {"call", "submitted", "collect"}
    /\ wk[f].st = "running"
    /\ LET w == wk[f]
           ci1 == w.ci + 1
           fit_config == gs_configs[ci1]
           load == NeedsLoad(w.ci, fit_config)
       IN  IF load /\ f \in gs_loadFails
           THEN \* lines 946-948: except: print; continue
                Ended(f, AfterConfig(w, ci1))
           ELSE LET oX1 == IF load
                           THEN Some([file |-> f, args |-> LoaderCallArgs(fit_config)])
                           ELSE w.oX
                IN  IF oX1 = None
                    THEN \* line 951: oX was never bound
                         Ended(f, [w EXCEPT !.st = "raised",
                                            !.err = Some("UnboundLocalError")])
                    ELSE \E ok \in BOOLEAN :
                         IF ok
                         THEN Ended(f, AfterConfig(
                                  [w EXCEPT !.oX = oX1,
                                            !.res = Store(w.res, w.ci, f,
                                                ScoreOf(f, w.ci, Val(oX1)),
                                                CurveOf(f, w.ci, Val(oX1)))],
                                  ci1))
                         ELSE \* lines 957-962: the try/except is commented out
                              Ended(f, [w EXCEPT !.oX = oX1, !.st = "raised",
                                                 !.err = Some("AnalysisError"),
                                                 !.bad = w.bad \cup {w.ci}])
    /\ UNCHANGED <<gs_mode, gs_pc, gs_err, gs_res, gs_file, early, collected,
                   written, gs_loadFails, gs_configs>>
    /\ UNCHANGED nonGsVars

\* the driver ends with an exception
RaiseGS(e) == gs_pc' = "failed" /\ gs_err' = e

\* the call for file f has ended
HasEnded(f) == wk[f].st \in {"returned", "raised"}

\* lines 1003-1004 and 1057-1058: write the summary of r to the results file
WriteSummary(r) ==
    IF SummaryError(r) # None
    THEN RaiseGS(SummaryError(r)) /\ UNCHANGED written
    ELSE written' = written + 1 /\ UNCHANGED <<gs_pc, gs_err>>

\* lines 997-1002: datasets_GridSearchCV calls dataset_GridSearchCV for the
\* next file with the results so far
SeqCall ==
    /\ gs_mode = "sequential"
    /\ gs_pc \in {"start", "next"}
    /\ gs_file < Cardinality(Files)
    /\ gs_file' = gs_file + 1
    /\ wk' = [wk EXCEPT ![gs_file + 1] = Entered(gs_res)]
    /\ gs_pc' = "call"
    /\ UNCHANGED <<gs_mode, gs_err, gs_res, completed, early, collected,
                   written, gs_loadFails, gs_configs>>
    /\ UNCHANGED nonGsVars

\* lines 1000-1004: the call comes back (or its exception passes through),
\* the summary is written
SeqReturn ==
    /\ gs_mode = "sequential"
    /\ gs_pc = "call"
    /\ HasEnded(gs_file)
    /\ collected' = Append(collected, gs_file)
    /\ IF wk[gs_file].st = "raised"
       THEN RaiseGS(wk[gs_file].err) /\ UNCHANGED <<gs_res, written>>
       ELSE /\ gs_res' = wk[gs_file].res
            /\ IF SummaryError(wk[gs_file].res) # None
               THEN RaiseGS(SummaryError(wk[gs_file].res)) /\ UNCHANGED written
               ELSE /\ written' = written + 1
                    /\ gs_pc' = IF gs_file = Cardinality(Files)
                                THEN "finish" ELSE "next"
                    /\ UNCHANGED gs_err
    /\ UNCHANGED <<gs_mode, gs_file, wk, completed, early, gs_loadFails,
                   gs_configs>>
    /\ UNCHANGED nonGsVars

\* lines 1036-1039: one job per file, each entered with a new empty list
Submit ==
    /\ gs_mode = "concurrent"
    /\ gs_pc = "start"
    /\ wk' = [f \in Files |-> Entered(<<>>)]
    /\ gs_pc' = "submitted"
    /\ UNCHANGED <<gs_mode, gs_err, gs_res, gs_file, completed, early,
                   collected, written, gs_loadFails, gs_configs>>
    /\ UNCHANGED nonGsVars

\* line 1046: as_completed begins; the jobs that have already ended are
\* handed out first, in no particular order
AsCompleted ==
    /\ gs_pc = "submitted"
    /\ early' = Some({f \in Files : HasEnded(f)})
    /\ gs_pc' = "collect"
    /\ UNCHANGED <<gs_mode, gs_err, gs_res, gs_file, wk, completed,
                   collected, written, gs_loadFails, gs_configs>>
    /\ UNCHANGED nonGsVars

\* the jobs as_completed may hand out next
Yieldable ==
    LET taken == Range(collected)
        first == Val(early) \ taken
        later == {i \in DOMAIN completed : completed[i] \notin taken}
    IN  IF first # {} THEN first
        ELSE {completed[i] : i \in {j \in later : \A k \in later : j <= k}}

\* lines 1049-1055: merge the list of one job into the results so far
MergeInto_Overwrite(r, res_fi) == [err |-> None, res |-> res_fi]
MergeInto(r, res_fi) ==
    IF r # <<>>
    THEN LET wrong == {ci \in DOMAIN res_fi :
                          ci > Len(r) \/ r[ci] = None \/ res_fi[ci] = None}
         IN  IF wrong # {}
             THEN LET ci == CHOOSE c \in wrong : \A d \in wrong : c <= d
                  IN  [err |-> IF ci > Len(r) THEN Some("IndexError")
                               ELSE Some("TypeError"),
                       res |-> r]
             ELSE [err |-> None,
                   res |-> [ci \in DOMAIN r |->
                       IF ci \in DOMAIN res_fi
                       THEN Some([config |-> Val(r[ci]).config,
                                  filenames |-> Val(r[ci]).filenames
                                                \o Val(res_fi[ci]).filenames,
                                  scores |-> Val(r[ci]).scores
                                             \o Val(res_fi[ci]).scores,
                                  decoding_curves |->
                                      Val(r[ci]).decoding_curves
                                      \o Val(res_fi[ci]).decoding_curves])
                       ELSE r[ci]]]
    ELSE [err |-> None, res |-> res_fi]

\* lines 1046-1058: one pass of the loop over as_completed(futures) for
\* the job of file f; future.result() raises what the job raised
Collect(f) ==
    /\ gs_pc = "collect"
    /\ f \in Yieldable
    /\ collected' = Append(collected, f)
    /\ IF wk[f].st = "raised"
       THEN RaiseGS(wk[f].err) /\ UNCHANGED <<gs_res, written>>
       ELSE LET m == MergeInto(gs_res, wk[f].res)
            IN  IF m.err # None
                THEN RaiseGS(m.err) /\ UNCHANGED <<gs_res, written>>
                ELSE gs_res' = m.res /\ WriteSummary(m.res)
    /\ UNCHANGED <<gs_mode, gs_file, wk, completed, early, gs_loadFails,
                   gs_configs>>
    /\ UNCHANGED nonGsVars

\* lines 1006-1011 and 1060-1065: the final summary and the return
Finish ==
    /\ \/ gs_pc = "finish"
       \/ gs_pc = "collect" /\ Range(collected) = Files
    /\ IF SummaryError(gs_res) # None
       THEN RaiseGS(SummaryError(gs_res)) /\ UNCHANGED written
       ELSE gs_pc' = "done" /\ written' = written + 1 /\ UNCHANGED gs_err
    /\ UNCHANGED <<gs_mode, gs_res, gs_file, wk, completed, early, collected,
                   gs_loadFails, gs_configs>>
    /\ UNCHANGED nonGsVars

NextGS ==
    \/ SeqCall
    \/ SeqReturn
    \/ Submit
    \/ AsCompleted
    \/ \E f \in Files : StepConfig(f)
    \/ \E f \in Files : Collect(f)
    \/ Finish

SpecGS == InitGS /\ [][NextGS]_vars

\* every job of the concurrent driver came back with every grid point
\* analysed, and the driver has returned
AllSucceeded ==
    /\ gs_mode = "concurrent" /\ gs_pc = "done"
    /\ gs_loadFails = {}
    /\ \A f \in Files : wk[f].st = "returned"

\* the merged result holds, under every grid index, exactly the entries of
\* the jobs' lists for that index, in the order `order` of the jobs
MergedInOrder(order) ==
    /\ Len(gs_res) = nCfg
    /\ \A ci \in 1..nCfg :
          /\ gs_res[ci] # None
          /\ Val(gs_res[ci]).config = ci - 1
          /\ Val(gs_res[ci]).filenames = order
          /\ Val(gs_res[ci]).scores =
                 [k \in DOMAIN order |-> Val(wk[order[k]].res[ci]).scores[1]]
          /\ Val(gs_res[ci]).decoding_curves =
                 [k \in DOMAIN order |-> Val(wk[order[k]].res[ci]).decoding_curves[1]]
          /\ \A k \in DOMAIN order :
                 /\ Val(wk[order[k]].res[ci]).scores[1].file = order[k]
                 /\ Val(wk[order[k]].res[ci]).scores[1].ci = ci - 1

\* position of job f in the order in which the jobs ended
EndedAt(f) == CHOOSE i \in DOMAIN completed : completed[i] = f

\* C15 as stated: after all workers completed successfully the merged
\* result holds, for each grid index, one filename, score and curve per
\* file, taken from that file's worker entry, in worker completion order.
C15_CompletionOrder ==
    AllSucceeded =>
        /\ Range(completed) = Files /\ Len(completed) = Cardinality(Files)
        /\ MergedInOrder(completed)

\* C15 amended: after all workers completed successfully the merged result
\* holds, for each grid index, one filename, score and curve per file, taken
\* from that file's worker entry and under no other index, in the order in
\* which the parent collected the workers: the workers that had ended
\* before the collection began come first (in any order), the others
\* follow in completion order.
C15_CollectionOrder ==
    AllSucceeded =>
        /\ Range(collected) = Files /\ Len(collected) = Cardinality(Files)
        /\ MergedInOrder(collected)
        /\ \A i, j \in DOMAIN collected :
              i < j =>
                 /\ collected[j] \in Val(early) => collected[i] \in Val(early)
                 /\ (collected[i] \notin Val(early) /\ collected[j] \notin Val(early))
                       => EndedAt(collected[i]) < EndedAt(collected[j])

C15_Witness ==
    /\ AllSucceeded /\ Cardinality(Files) = 2 /\ nCfg = 2
    /\ collected = <<2, 1>> /\ completed = <<2, 1>> /\ Val(early) = {}
    /\ Len(Val(gs_res[2]).filenames) = 2

\* file f is recorded under grid index ci (0-based) of the list r
Recorded(r, ci, f) ==
    /\ ci + 1 \in DOMAIN r
    /\ r[ci + 1] # None
    /\ f \in Range(Val(r[ci + 1]).filenames)

\* C16: in the fan-out mode, when the analysis in one worker raises, only
\* that worker's contribution is dropped: the parent does not fail, and
\* when it returns it has collected and merged every other worker's
\* results.
C16_OthersStillMerged ==
    (/\ gs_mode = "concurrent" /\ gs_loadFails = {}
     /\ \E f \in Files : wk[f].bad # {}) =>
        /\ gs_pc # "failed"
        /\ gs_pc = "done" =>
              \A f \in Files : wk[f].st = "returned" =>
                  /\ f \in Range(collected)
                  /\ \A ci \in 0..(nCfg - 1) : Recorded(gs_res, ci, f)

\* C17: when the analysis of one grid point raises in dataset_GridSearchCV,
\* the call goes on: it does not end with that exception, and when it
\* returns every other grid point of a loadable file is recorded.
C17_ConfigSkipped ==
    \A f \in Files :
        wk[f].bad # {} =>
            /\ wk[f].st # "raised"
            /\ (wk[f].st = "returned" /\ f \notin gs_loadFails) =>
                  \A ci \in (0..(nCfg - 1)) \ wk[f].bad :
                      Recorded(wk[f].res, ci, f)

\* C18: a file the loader fails for is skipped: no error leaves
\* dataset_GridSearchCV for it, whatever the number of grid points, and it
\* is recorded under no grid index.
C18_FailedFileSkipped ==
    \A f \in gs_loadFails :
        /\ wk[f].st # "raised"
        /\ \A ci \in 0..(nCfg - 1) : ~Recorded(wk[f].res, ci, f)

\* C25: every grid point is analysed on data loaded with its own effective
\* loader arguments (the caller's loader_args overridden by the grid
\* point's loader_args entries).
C25_LoadedWithOwnArgs ==
    \A f \in Files :
    \A i \in DOMAIN wk[f].res :
        wk[f].res[i] # None =>
            \A k \in DOMAIN Val(wk[f].res[i]).scores :
                Val(wk[f].res[i]).scores[k].data.args = loader_args_f(gs_configs[i])

\* C26: after every step of either driver every entry of the result list
\* is a record, never an empty placeholder, with filenames, scores and
\* decoding_curves of equal length, and the summary of the list can be
\* produced: no driver ends with the IndexError or TypeError of a list the
\* summary or the merge cannot read.
C26_SummaryAlwaysPossible ==
    /\ gs_err \notin {Some("IndexError"), Some("TypeError")}
    /\ \A i \in DOMAIN gs_res :
          /\ gs_res[i] # None
          /\ Len(Val(gs_res[i]).filenames) = Len(Val(gs_res[i]).scores)
          /\ Len(Val(gs_res[i]).filenames) = Len(Val(gs_res[i]).decoding_curves)

\* ---------------------------------------------------------------------
\* ScreenGraph and LoopedScreenGraph (basic_screens.py, lines 274-435)
\* ---------------------------------------------------------------------

\* the keys of the default subscreens dict (lines 277-278), the name the
\* docstring uses for a screen that is not there (line 288), the key of the
\* loop screen (line 408) and the transition function bound to it (line 409)
ScreenNames == <<"ins1", "ins2">>
NoSuchScreen == "end"
Looper == "looper"
loop_test_fn == "<bound method loop_test>"

\* a sub-screen after construction or reset() (lines 66-67, 104-106)
CleanScreen == [isRunning |-> FALSE, isDone |-> FALSE]

\* line 300: start_screen if start_screen else list(subscreens.keys())[0]
StartOf(arg, keys) == IF arg # None THEN Val(arg) ELSE keys[1]

\* lines 306, 365: self.subscreens.get(current_screen, None)
GetScreen(keys, cur) ==
    IF cur # None /\ Val(cur) \in Range(keys) THEN cur ELSE None

\* lines 409-412: the transitions of a LoopedScreenGraph
LoopTransitions(tr, exit_arg) ==
    LET dom == DOMAIN tr \cup {Looper}
                  \cup (IF exit_arg # None THEN {Val(exit_arg)} ELSE {})
    IN  [k \in dom |->
            IF exit_arg # None /\ k = Val(exit_arg) THEN Looper
            ELSE IF k = Looper THEN loop_test_fn
            ELSE tr[k]]

\* __init__ of either class (lines 294-301, 400-412), which ends in reset()
InitSG ==
    /\ ADIdle
    /\ TTIdle
    /\ GSIdle
    /\ SLIdle
    /\ WSIdle
    /\ sg_kind \in {"graph", "looped"}
    /\ \E n \in 1..Len(ScreenNames) :
       \E start_arg, exit_arg \in {None} \cup {Some(ScreenNames[i]) : i \in 1..n} :
       \E dom \in SUBSET {ScreenNames[i] : i \in 1..n} :
       \E tr \in [dom -> {ScreenNames[i] : i \in 1..n} \cup {NoSuchScreen}] :
          LET keys == [i \in 1..n |-> ScreenNames[i]]
          IN  /\ default_screen \in {None} \cup {Some(ScreenNames[i]) : i \in 1..n}
              /\ start_screen = StartOf(start_arg, keys)
              /\ IF sg_kind = "graph"
                 THEN /\ subscreens = keys
                      /\ subscreen_transitions = tr
                      /\ exit_screen = exit_arg
                      /\ inner_exit_screen = None
                      /\ n_loop = 0
                 ELSE /\ subscreens = Append(keys, Looper)
                      /\ subscreen_transitions = LoopTransitions(tr, exit_arg)
                      /\ exit_screen = None
                      /\ inner_exit_screen = exit_arg
                      /\ n_loop \in 0..MaxLoop
    /\ loop_i = 0
    /\ current_screen = Some(start_screen)
    /\ screen = GetScreen(subscreens, current_screen)
    /\ sub = [k \in Range(subscreens) |-> CleanScreen]
    /\ trail = <<current_screen>>

\* lines 342-350
is_done == screen = None

\* lines 414-431: loop_test, as the pair of the new loop_i and the screen
\* it returns
loop_test(i) ==
    IF i < n_loop THEN [loop_i |-> i + 1, to |-> Some(start_screen)]
    ELSE [loop_i |-> i, to |-> exit_screen]

\* lines 358-361: the entry of the transitions dict, or default_screen
NextScreen(cur) ==
    IF Some(cur) = exit_screen THEN None
    ELSE IF cur \in DOMAIN subscreen_transitions
         THEN Some(subscreen_transitions[cur])
         ELSE default_screen

\* lines 352-367: transitionNextPhase
transitionNextPhase(sub1) ==
    LET nxt == NextScreen(Val(current_screen))
        called == nxt = Some(loop_test_fn)
        lt == loop_test(loop_i)
        cur1 == IF called THEN lt.to ELSE nxt
        scr1 == GetScreen(subscreens, cur1)
    IN  /\ loop_i' = IF called THEN lt.loop_i ELSE loop_i
        /\ current_screen' = cur1
        /\ screen' = scr1
        /\ sub' = IF scr1 # None
                  THEN [sub1 EXCEPT ![Val(scr1)] = CleanScreen]
                  ELSE sub1
        /\ trail' = Append(trail, cur1)

\* lines 335-340: draw; the sub-screen is drawn (lines 135-139), asked
\* whether it is done (lines 108-127: a done screen stays done, a running
\* one becomes done on input or timeout), and if so the graph moves on
Draw ==
    /\ sg_kind # "idle"
    /\ ~is_done
    /\ Len(trail) <= MaxSteps
    /\ \E input \in BOOLEAN :
          LET k == Val(screen)
              drawn == [sub EXCEPT ![k].isRunning = TRUE,
                                   ![k].isDone = sub[k].isDone \/ input]
          IN  IF drawn[k].isDone
              THEN transitionNextPhase(drawn)
              ELSE /\ sub' = drawn
                   /\ UNCHANGED <<loop_i, current_screen, screen, trail>>
    /\ UNCHANGED <<sg_kind, subscreens, subscreen_transitions, start_screen,
                   default_screen, exit_screen, inner_exit_screen, n_loop>>
    /\ UNCHANGED nonSgVars

\* lines 303-306 and 433-435: reset
Reset ==
    /\ sg_kind # "idle"
    /\ current_screen' = Some(start_screen)
    /\ screen' = GetScreen(subscreens, Some(start_screen))
    /\ loop_i' = 0
    /\ trail' = <<Some(start_screen)>>
    /\ UNCHANGED <<sg_kind, subscreens, subscreen_transitions, start_screen,
                   default_screen, exit_screen, inner_exit_screen, n_loop, sub>>
    /\ UNCHANGED nonSgVars

NextSG == Draw \/ Reset

SpecSG == InitSG /\ [][NextSG]_vars

\* the number of times the graph was at the inner exit screen since reset()
Traversals == Cardinality({i \in DOMAIN trail : trail[i] = inner_exit_screen})

\* C19: a LoopedScreenGraph with n_loop = n and an exit_screen has, when
\* is_done() becomes true after the loop screen, traversed the inner graph
\* from the start screen to the exit screen exactly n times since reset().
C19_ExactlyNLoops ==
    (/\ sg_kind = "looped" /\ inner_exit_screen # None
     /\ is_done
     /\ Len(trail) >= 2 /\ trail[Len(trail) - 1] = Some(Looper)) =>
        Traversals = n_loop

\* C20: when the sub-screen that finishes is not the exit screen and has no
\* entry in subscreen_transitions, the graph moves to default_screen, and
\* to the first screen in subscreens when default_screen is None.
C20_DefaultOrFirst ==
    \A i \in 1..(Len(trail) - 1) :
        (/\ trail[i] # exit_screen
         /\ Val(trail[i]) \notin DOMAIN subscreen_transitions) =>
            /\ trail[i + 1] = IF default_screen # None THEN default_screen
                              ELSE Some(subscreens[1])
            /\ i + 1 = Len(trail) => screen = trail[i + 1]

\* C27: after reset(), whatever happened before, the start sub-screen is
\* the current screen and is in its clean state: not running, not done.
C27_ResetCleansStart ==
    [][Reset =>
          /\ current_screen' = Some(start_screen)
          /\ screen' # None => sub'[Val(screen')] = CleanScreen]_vars

\* ---------------------------------------------------------------------
\* ScreenList (basic_screens.py, lines 220-266)
\* ---------------------------------------------------------------------

\* lines 222-232: __init__ makes the list of sub-screens (the instruction
\* screen, and what a subclass adds) and leaves the index and the screen None
InitSL ==
    /\ ADIdle
    /\ TTIdle
    /\ GSIdle
    /\ SGIdle
    /\ WSIdle
    /\ \E n \in 1..MaxList : sl_subscreens = [i \in 1..n |-> CleanScreen]
    /\ current_screen_idx = None
    /\ sl_screen = None
    /\ sl_reset = FALSE
    /\ sl_shown = <<>>
    /\ sl_finished = <<>>

\* lines 246-254
ListIsDone == sl_screen = None

\* lines 256-266: transitionNextPhase of the list, from index idx, with the
\* sub-screens subs and the indices shown so far
ListTransition(idx, subs, shown) ==
    LET idx1 == IF idx # None THEN Val(idx) + 1 ELSE 0
    IN  /\ current_screen_idx' = Some(idx1)
        /\ IF idx1 < Len(subs)
           THEN /\ sl_screen' = Some(idx1)
                /\ sl_subscreens' = [subs EXCEPT ![idx1 + 1] = CleanScreen]
                /\ sl_shown' = Append(shown, idx1)
           ELSE /\ sl_screen' = None
                /\ sl_subscreens' = subs
                /\ sl_shown' = shown

\* lines 234-237: reset
ResetSL ==
    /\ sl_subscreens # <<>>
    /\ sl_reset' = TRUE
    /\ sl_finished' = <<>>
    /\ ListTransition(None, sl_subscreens, <<>>)
    /\ UNCHANGED nonSlVars

\* lines 239-244: draw; nothing happens without a current screen, else the
\* sub-screen is drawn and asked whether it is done, and if so the list
\* moves on
DrawSL ==
    /\ sl_subscreens # <<>>
    /\ IF sl_screen = None
       THEN UNCHANGED slVars
       ELSE \E input \in BOOLEAN :
            LET k == Val(sl_screen) + 1
                drawn == [sl_subscreens EXCEPT
                             ![k].isRunning = TRUE,
                             ![k].isDone = sl_subscreens[k].isDone \/ input]
            IN  /\ UNCHANGED sl_reset
                /\ IF drawn[k].isDone
                   THEN /\ sl_finished' = Append(sl_finished, Val(sl_screen))
                        /\ ListTransition(current_screen_idx, drawn, sl_shown)
                   ELSE /\ sl_subscreens' = drawn
                        /\ UNCHANGED <<current_screen_idx, sl_screen, sl_shown,
                                       sl_finished>>
    /\ UNCHANGED nonSlVars

NextSL == ResetSL \/ DrawSL

SpecSL == InitSL /\ [][NextSL]_vars

\* C21: in every reachable state of a ScreenList, directly after
\* construction included, is_done() is true only if every sub-screen of
\* the list has become current, in list order, and has reported done.
C21_DoneOnlyAfterAll ==
    (sl_subscreens # <<>> /\ ListIsDone) =>
        /\ sl_shown = [i \in DOMAIN sl_subscreens |-> i - 1]
        /\ sl_finished = [i \in DOMAIN sl_subscreens |-> i - 1]

\* ---------------------------------------------------------------------
\* WaitScreen (basic_screens.py, lines 59-153)
\* ---------------------------------------------------------------------

\* a key or mouse event the window holds
Event == "event"

\* lines 61-68: __init__; the window may hold an earlier key press or
\* mouse release, and the clock may stand anywhere
InitWS ==
    /\ ADIdle
    /\ TTIdle
    /\ GSIdle
    /\ SGIdle
    /\ SLIdle
    /\ ws_made = TRUE
    /\ isRunning = FALSE
    /\ isDone = FALSE
    /\ t0 = None
    /\ duration \in {None} \cup {Some(d) : d \in 0..MaxDuration}
    /\ waitKey \in BOOLEAN
    /\ waitMouse \in BOOLEAN
    /\ last_key_press \in {None, Some(Event)}
    /\ last_mouse_release \in {None, Some(Event)}
    /\ now \in 0..(ClockWrap - 1)
    /\ ws_drawn = FALSE
    /\ ws_ret = None

\* lines 129-130: getTimeStamp, the clock modulo its width
getTimeStamp == now % ClockWrap

\* lines 132-133: elapsed_ms; a time stamp of 0 counts as no time stamp
elapsed_ms ==
    IF t0 # None /\ Val(t0) # 0 THEN getTimeStamp - Val(t0) ELSE 0 - 1

\* lines 113-115: a key press ends the screen when waitKey is set
KeyPending_Always == last_key_press # None
KeyPending == waitKey /\ last_key_press # None

\* lines 119-120: a mouse release ends the screen when waitMouse is set
MousePending == waitMouse /\ last_mouse_release # None

\* line 124: the duration is over
TimedOut == duration # None /\ elapsed_ms > Val(duration)

\* lines 104-106: reset
ResetWS ==
    /\ ws_made
    /\ isRunning' = FALSE
    /\ isDone' = FALSE
    /\ ws_drawn' = FALSE
    /\ ws_ret' = None
    /\ UNCHANGED <<t0, duration, waitKey, waitMouse, last_key_press,
                   last_mouse_release, now, ws_made>>
    /\ UNCHANGED nonWsVars

\* lines 135-139: draw starts the screen and its timer on the first call
DrawWS ==
    /\ ws_made
    /\ ws_drawn' = TRUE
    /\ isRunning' = TRUE
    /\ t0' = IF ~isRunning THEN Some(getTimeStamp) ELSE t0
    /\ UNCHANGED <<isDone, duration, waitKey, waitMouse, last_key_press,
                   last_mouse_release, now, ws_made, ws_ret>>
    /\ UNCHANGED nonWsVars

\* lines 108-127: is_done
IsDoneWS ==
    /\ ws_made
    /\ IF ~isRunning
       THEN /\ isDone' = FALSE
            /\ ws_ret' = Some(FALSE)
            /\ UNCHANGED <<last_key_press, last_mouse_release>>
       ELSE /\ isDone' = (isDone \/ KeyPending \/ MousePending \/ TimedOut)
            /\ ws_ret' = Some(isDone')
            /\ last_key_press' = IF KeyPending THEN None ELSE last_key_press
            /\ last_mouse_release' = IF MousePending THEN None
                                     ELSE last_mouse_release
    /\ UNCHANGED <<isRunning, t0, duration, waitKey, waitMouse, now, ws_made,
                   ws_drawn>>
    /\ UNCHANGED nonWsVars

\* the window records a key press
KeyPress ==
    /\ ws_made
    /\ last_key_press' = Some(Event)
    /\ UNCHANGED <<isRunning, isDone, t0, duration, waitKey, waitMouse,
                   last_mouse_release, now, ws_made, ws_drawn, ws_ret>>
    /\ UNCHANGED nonWsVars

\* the window records a mouse release
MouseRelease ==
    /\ ws_made
    /\ last_mouse_release' = Some(Event)
    /\ UNCHANGED <<isRunning, isDone, t0, duration, waitKey, waitMouse,
                   last_key_press, now, ws_made, ws_drawn, ws_ret>>
    /\ UNCHANGED nonWsVars

\* a millisecond passes; the time stamp wraps (line 130)
Tick ==
    /\ ws_made
    /\ now' = (now + 1) % ClockWrap
    /\ UNCHANGED <<isRunning, isDone, t0, duration, waitKey, waitMouse,
                   last_key_press, last_mouse_release, ws_made, ws_drawn,
                   ws_ret>>
    /\ UNCHANGED nonWsVars

NextWS == ResetWS \/ DrawWS \/ IsDoneWS \/ KeyPress \/ MouseRelease \/ Tick

SpecWS == InitWS /\ [][NextWS]_vars

\* C22: a WaitScreen never reports done before its first draw after
\* reset(); is_done() turns true only once the screen is drawn and a key
\* press is pending with waitKey, a mouse release is pending with
\* waitMouse, or the time since the first draw exceeds the duration; and
\* after it returned true it returns true until reset().
C22_DoneOnlyByInput ==
    /\ [](~ws_drawn => ws_ret # Some(TRUE))
    /\ [][(ws_ret # Some(TRUE) /\ ws_ret' = Some(TRUE)) =>
             /\ ws_drawn
             /\ \/ waitKey /\ last_key_press # None
                \/ waitMouse /\ last_mouse_release # None
                \/ /\ duration # None /\ t0 # None
                   /\ now - Val(t0) > Val(duration)]_vars
    /\ [][(ws_ret = Some(TRUE) /\ ws_ret' # Some(TRUE)) =>
             (ws_ret' = None /\ ~ws_drawn' /\ ~isRunning')]_vars

C22_Witness ==
    /\ ws_ret = Some(TRUE) /\ ws_drawn /\ isDone
    /\ ~waitKey /\ last_key_press # None
    /\ ~waitMouse /\ duration = Some(1)

====
